---- MODULE Spec2Model ----
(***************************************************************************)
(* Model of examples/simple/simple.py: a HyperParams record, the tf.data   *)
(* input pipelines built by prepare_data, the Keras model built, compiled, *)
(* fitted with an EarlyStopping callback and evaluated by main.            *)
(*                                                                         *)
(* The framework calls are modelled by their documented behaviour at the   *)
(* call site: tfds percent slicing ('train[:90%]'), Dataset.map/batch,     *)
(* Model.fit's epoch loop and EarlyStopping.on_epoch_end.                  *)
(***************************************************************************)
EXTENDS Integers, Sequences, FiniteSets, TLC

VARIABLES
    pc,            \* position in main
    args,          \* the constructor arguments given to HyperParams(...)
    hp,            \* the HyperParams record
    tfds_data,     \* the dataset as stored by tfds: its 'train' and 'test' splits
    train, dev, test, info,   \* prepare_data's results
    hidden, loop_i,           \* main's layer chain under construction, loop index
    model,         \* the tf.keras.Model: layers, params, compiled
    stop_early,    \* the EarlyStopping callback's fields
    epoch,         \* number of epochs fit has run
    val_hist,      \* the val_loss of each epoch run so far
    started, finished, failedAt,  \* stages started / completed, stage that raised
    stdout,        \* lines printed
    result,        \* (test_loss, test_acc) returned by model.evaluate
    trained_on, validated_on, tested_on,  \* ids of the examples each stage has read
    eval_params    \* the parameters model.evaluate used

vars == <<pc, args, hp, tfds_data, train, dev, test, info, hidden, loop_i, model,
          stop_early, epoch, val_hist, started, finished, failedAt, stdout,
          result, trained_on, validated_on, tested_on, eval_params>>

----------------------------------------------------------------------------
(* Bounds of the model *)

MaxEpochs == 7
MaxLoss == 2
MaxBatch == 2
MaxHidden == 3
MaxWidth == 3
MaxTrain == 11
MaxTest == 1
PixelsPerImage == 1

(* Program constants *)

PixelScale == 255
F32MantissaBits == 23
TrainPercent == 90
Patience == 5
NumClasses == 10

None == "None"

----------------------------------------------------------------------------
\* variant: the first two fields exchanged
HyperParamsSwapped(a, b, c) == [batch_size |-> b, epochs |-> a, hidden_layers |-> c]

(* HyperParams = namedtuple("HyperParams", ["batch_size", "epochs", "hidden_layers"]) *)
HyperParams(a, b, c) == [batch_size |-> a, epochs |-> b, hidden_layers |-> c]

----------------------------------------------------------------------------
(* float32 arithmetic: a positive value is man * 2^(exp - 23) with         *)
(* 2^23 <= man < 2^24; zero is man = 0.                                    *)

RECURSIVE Pow2(_)
Pow2(n) == IF n = 0 THEN 1 ELSE 2 * Pow2(n - 1)

F32Zero == [man |-> 0, exp |-> 0]
F32One == [man |-> Pow2(F32MantissaBits), exp |-> 0]

\* the k >= 0 with d <= p * 2^k < 2d, for 0 < p <= d
RECURSIVE NormShift(_, _)
NormShift(p, d) == IF p >= d THEN 0 ELSE 1 + NormShift(2 * p, d)

\* n more quotient bits of r/d by long division: <<quotient, remainder>>
RECURSIVE LongDiv(_, _, _, _)
LongDiv(r, q, n, d) ==
    IF n = 0 THEN <<q, r>>
    ELSE IF 2 * r >= d THEN LongDiv(2 * r - d, 2 * q + 1, n - 1, d)
         ELSE LongDiv(2 * r, 2 * q, n - 1, d)

\* tf.cast(p, tf.float32) / d for integers 0 <= p <= d < 2^24: the float32
\* nearest to p/d, ties to even
F32Div(p, d) ==
    IF p = 0 THEN F32Zero
    ELSE LET k == NormShift(p, d)
             qr == LongDiv(p * Pow2(k) - d, 1, F32MantissaBits, d)
             q == qr[1]
             r == qr[2]
             up == 2 * r > d \/ (2 * r = d /\ q % 2 = 1)
             m == IF up THEN q + 1 ELSE q
         IN IF m = Pow2(F32MantissaBits + 1)
            THEN [man |-> Pow2(F32MantissaBits), exp |-> 1 - k]
            ELSE [man |-> m, exp |-> 0 - k]

F32Leq(a, b) ==
    \/ a.man = 0
    \/ /\ b.man # 0
       /\ \/ a.exp < b.exp
          \/ a.exp = b.exp /\ a.man <= b.man

\* variant: division by 256
ScalePixelBy256(p) == F32Div(p, PixelScale + 1)

\* the quotient of every uint8 value, computed once
F32Table == [p \in 0..255 |-> F32Div(p, PixelScale)]

ScalePixel(p) == F32Table[p]

\* normalize_img(image, label): an image is a tuple of uint8 pixels
normalize_img(image, label) ==
    <<[j \in 1..Len(image) |-> ScalePixel(image[j])], label>>

----------------------------------------------------------------------------
(* tfds: the stored dataset and percent slicing *)

\* example i of a stored split; its pixels and label vary with i and the seed
Example(split, i, seed) ==
    [id |-> <<split, i>>,
     image |-> [j \in 1..PixelsPerImage |-> (seed + i + j - 2) % 256],
     label |-> (seed + i) % NumClasses]

Dataset(n, m, seed) ==
    [train |-> [i \in 1..n |-> Example("train", i, seed)],
     test |-> [i \in 1..m |-> Example("test", i, seed + n)],
     shape |-> <<PixelsPerImage>>]

\* tfds rounds a percent boundary to the closest example index:
\* int(round(boundary * num_examples / 100.0)), Python's round (ties to even)
PctToAbsClosest(boundary, n) ==
    LET q == (boundary * n) \div 100
        r == (boundary * n) % 100
    IN IF r > 50 \/ (r = 50 /\ q % 2 = 1) THEN q + 1 ELSE q

SliceSeq(s, from, to) == [i \in 1..(to - from) |-> s[from + i]]

\* one entry of tfds.load's split=[...] list
SplitTo(stored, name, pct) ==
    SliceSeq(stored[name], 0, PctToAbsClosest(pct, Len(stored[name])))
SplitFrom(stored, name, pct) ==
    SliceSeq(stored[name], PctToAbsClosest(pct, Len(stored[name])), Len(stored[name]))
SplitAll(stored, name) == stored[name]

\* Dataset.map(normalize_img)
MapNormalize(elems) ==
    [i \in 1..Len(elems) |->
        LET out == normalize_img(elems[i].image, elems[i].label)
        IN [id |-> elems[i].id, image |-> out[1], label |-> out[2]]]

\* variant: the second split given as 'train'
TfdsLoadOverlapping(stored) ==
    [train |-> SplitTo(stored, "train", TrainPercent),
     dev |-> SplitAll(stored, "train"),
     test |-> SplitAll(stored, "test"),
     info |-> [num_train |-> Len(stored.train), shape |-> stored.shape]]

\* a tf.data pipeline: its elements and the transformations configured on it
Pipeline(elems, ops, batch_size, buffer) ==
    [elems |-> elems, ops |-> ops, batch_size |-> batch_size, buffer |-> buffer]

\* tfds.load('mnist', split=['train[:90%]', 'train[90%:]', 'test'], with_info=True)
TfdsLoad(stored) ==
    [train |-> SplitTo(stored, "train", TrainPercent),
     dev |-> SplitFrom(stored, "train", TrainPercent),
     test |-> SplitAll(stored, "test"),
     info |-> [num_train |-> Len(stored.train), shape |-> stored.shape]]

TrainPipeline(elems, h, inf) ==
    Pipeline(MapNormalize(elems), <<"map", "cache", "shuffle", "batch", "prefetch">>,
             h.batch_size, inf.num_train)

EvalPipeline(elems, h) ==
    Pipeline(MapNormalize(elems), <<"map", "batch", "cache", "prefetch">>,
             h.batch_size, 0)

Ids(ds) == {ds.elems[i].id : i \in 1..Len(ds.elems)}

----------------------------------------------------------------------------
(* Keras layers and the EarlyStopping callback *)

InputLayer(shape) == [kind |-> "Input", shape |-> shape]
Flatten == [kind |-> "Flatten"]
Dense(units, activation, regularizer) ==
    [kind |-> "Dense", units |-> units, activation |-> activation,
     kernel_regularizer |-> regularizer]
Dropout(num, den) == [kind |-> "Dropout", rate |-> <<num, den>>]

\* variant: the dropout layer added inside the loop
AddHiddenWithDropout(chain, hidden_size) ==
    chain \o <<Dense(hidden_size, "relu", "l2"), Dropout(1, 2)>>

\* one iteration of `for hidden_size in hp.hidden_layers`
AddHidden(chain, hidden_size) == Append(chain, Dense(hidden_size, "relu", "l2"))

\* EarlyStopping's defaults for the arguments main does not pass
MinDelta == 0

\* variant: restore_best_weights=True
RestoreBestWeightsOn == TRUE

RestoreBestWeights == FALSE

\* np.Inf, above every loss; best_weights before any weights are kept
Inf == MaxLoss + 1
NoWeights == 0 - 1

\* variant: np.less_equal
IsImprovementOrEqual(current, best) == current - MinDelta <= best

\* np.less(current - min_delta, best), best starting at np.Inf
IsImprovement(current, best) == current - MinDelta < best

EarlyStopping(monitor, patience) ==
    [monitor |-> monitor, patience |-> patience, wait |-> 0, best |-> Inf,
     best_epoch |-> 0, stopped_epoch |-> 0, best_weights |-> NoWeights]

\* EarlyStopping.on_epoch_end(epoch, logs) with logs[monitor] = current and the
\* model's parameters `params`; `ep` is Keras's 0-based epoch index.
\* Returns the callback's new fields, model.stop_training and the parameters.
OnEpochEnd(cb, current, ep, params) ==
    LET improved == IsImprovement(current, cb.best)
        wait == IF improved THEN 0 ELSE cb.wait + 1
        stop == wait >= cb.patience /\ ep > 0
        cb1 == [cb EXCEPT !.wait = wait,
                          !.best = IF improved THEN current ELSE cb.best,
                          !.best_epoch = IF improved THEN ep ELSE cb.best_epoch,
                          !.best_weights = IF improved /\ RestoreBestWeights
                                           THEN params ELSE cb.best_weights,
                          !.stopped_epoch = IF stop THEN ep ELSE cb.stopped_epoch]
    IN [cb |-> cb1, stop_training |-> stop,
        params |-> IF stop /\ RestoreBestWeights /\ cb1.best_weights # NoWeights
                   THEN cb1.best_weights ELSE params]

----------------------------------------------------------------------------
(* The stages of main *)

Stages == <<"prepare_data", "model", "compile", "fit", "evaluate", "print">>

StageOf(p) ==
    CASE p = "model_loop" -> "model"
      [] p = "fit_begin" -> "fit"
      [] OTHER -> p

Losses == 1..MaxLoss

InSeq(x, s) == \E i \in 1..Len(s) : s[i] = x

\* variant: one epoch too many
EpochsLeftOffByOne(e, h) == e <= h.epochs

\* `for epoch in range(epochs)` with `if self.stop_training: break`
EpochsLeft(e, h) == e < h.epochs

\* variant: validation_data=test
ValidationDataIsTest == test

\* the datasets handed to fit and evaluate
ValidationData == dev
EvaluationData == test

\* train, dev, test, info = prepare_data(hp)
PrepareData ==
    /\ pc = "prepare_data"
    /\ LET loaded == TfdsLoad(tfds_data)
       IN /\ train' = TrainPipeline(loaded.train, hp, loaded.info)
          /\ dev' = EvalPipeline(loaded.dev, hp)
          /\ test' = EvalPipeline(loaded.test, hp)
          /\ info' = loaded.info
    /\ started' = Append(started, "prepare_data")
    /\ finished' = Append(finished, "prepare_data")
    /\ pc' = "model"
    /\ UNCHANGED <<args, hp, tfds_data, hidden, loop_i, model, stop_early, epoch,
                   val_hist, failedAt, stdout, result, trained_on, validated_on,
                   tested_on, eval_params>>

\* inputs = Input(shape); hidden = Flatten()(inputs)
BuildInput ==
    /\ pc = "model"
    /\ hidden' = <<InputLayer(info.shape), Flatten>>
    /\ loop_i' = 1
    /\ started' = Append(started, "model")
    /\ pc' = "model_loop"
    /\ UNCHANGED <<args, hp, tfds_data, train, dev, test, info, model, stop_early,
                   epoch, val_hist, finished, failedAt, stdout, result, trained_on,
                   validated_on, tested_on, eval_params>>

\* for hidden_size in hp.hidden_layers: hidden = Dense(hidden_size, relu, 'l2')(hidden)
BuildHidden ==
    /\ pc = "model_loop"
    /\ loop_i <= Len(hp.hidden_layers)
    /\ hidden' = AddHidden(hidden, hp.hidden_layers[loop_i])
    /\ loop_i' = loop_i + 1
    /\ UNCHANGED <<pc, args, hp, tfds_data, train, dev, test, info, model, stop_early,
                   epoch, val_hist, started, finished, failedAt, stdout, result,
                   trained_on, validated_on, tested_on, eval_params>>

\* Dropout(0.5), Dense(10, softmax), tf.keras.Model(inputs, outputs)
BuildOutput ==
    /\ pc = "model_loop"
    /\ loop_i > Len(hp.hidden_layers)
    /\ model' = [layers |-> hidden \o <<Dropout(1, 2), Dense(NumClasses, "softmax", None)>>,
                 params |-> 0, compiled |-> <<>>, stop_training |-> FALSE]
    /\ finished' = Append(finished, "model")
    /\ pc' = "compile"
    /\ UNCHANGED <<args, hp, tfds_data, train, dev, test, info, hidden, loop_i,
                   stop_early, epoch, val_hist, started, failedAt, stdout, result,
                   trained_on, validated_on, tested_on, eval_params>>

\* variant: fit left out
CompileSkipsFit ==
    /\ pc = "compile"
    /\ model' = [model EXCEPT !.compiled = <<"Adam">>]
    /\ started' = Append(started, "compile")
    /\ finished' = Append(finished, "compile")
    /\ pc' = "evaluate"
    /\ UNCHANGED <<args, hp, tfds_data, train, dev, test, info, hidden, loop_i,
                   stop_early, epoch, val_hist, failedAt, stdout, result, trained_on,
                   validated_on, tested_on, eval_params>>

\* model.compile(optimizer=Adam(), loss=..., metrics=[...])
Compile ==
    /\ pc = "compile"
    /\ model' = [model EXCEPT !.compiled =
                    <<"Adam", "SparseCategoricalCrossentropy", "accuracy">>]
    /\ started' = Append(started, "compile")
    /\ finished' = Append(finished, "compile")
    /\ pc' = "fit_begin"
    /\ UNCHANGED <<args, hp, tfds_data, train, dev, test, info, hidden, loop_i,
                   stop_early, epoch, val_hist, failedAt, stdout, result, trained_on,
                   validated_on, tested_on, eval_params>>

\* stop_early = EarlyStopping(monitor='val_loss', patience=5); model.fit(...) begins
FitBegin ==
    /\ pc = "fit_begin"
    /\ stop_early' = EarlyStopping("val_loss", Patience)
    /\ model' = [model EXCEPT !.stop_training = FALSE]
    /\ started' = Append(started, "fit")
    /\ pc' = "fit"
    /\ UNCHANGED <<args, hp, tfds_data, train, dev, test, info, hidden, loop_i,
                   epoch, val_hist, finished, failedAt, stdout, result, trained_on,
                   validated_on, tested_on, eval_params>>

\* one epoch of fit: train on `train`, compute val_loss on validation_data,
\* run the callback's on_epoch_end
FitEpoch ==
    /\ pc = "fit"
    /\ EpochsLeft(epoch, hp)
    /\ ~model.stop_training
    /\ \E val_loss \in Losses :
          LET trained == epoch + 1
              r == OnEpochEnd(stop_early, val_loss, epoch, trained)
          IN /\ stop_early' = r.cb
             /\ model' = [model EXCEPT !.params = r.params,
                                       !.stop_training = r.stop_training]
             /\ val_hist' = Append(val_hist, val_loss)
    /\ epoch' = epoch + 1
    /\ trained_on' = trained_on \cup Ids(train)
    /\ validated_on' = validated_on \cup Ids(ValidationData)
    /\ UNCHANGED <<pc, args, hp, tfds_data, train, dev, test, info, hidden, loop_i,
                   started, finished, failedAt, stdout, result, tested_on,
                   eval_params>>

\* fit returns: the epochs are used up or the callback set stop_training
FitEnd ==
    /\ pc = "fit"
    /\ ~(EpochsLeft(epoch, hp) /\ ~model.stop_training)
    /\ finished' = Append(finished, "fit")
    /\ pc' = "evaluate"
    /\ UNCHANGED <<args, hp, tfds_data, train, dev, test, info, hidden, loop_i, model,
                   stop_early, epoch, val_hist, started, failedAt, stdout, result,
                   trained_on, validated_on, tested_on, eval_params>>

\* test_loss, test_acc = model.evaluate(test)
Evaluate ==
    /\ pc = "evaluate"
    /\ \E test_loss \in Losses, correct \in 0..Len(EvaluationData.elems) :
          result' = <<test_loss, <<correct, Len(EvaluationData.elems)>>>>
    /\ tested_on' = tested_on \cup Ids(EvaluationData)
    /\ eval_params' = model.params
    /\ started' = Append(started, "evaluate")
    /\ finished' = Append(finished, "evaluate")
    /\ pc' = "print"
    /\ UNCHANGED <<args, hp, tfds_data, train, dev, test, info, hidden, loop_i, model,
                   stop_early, epoch, val_hist, failedAt, stdout, trained_on,
                   validated_on>>

\* print("test loss, test acc:", test_loss, test_acc)
PrintResult ==
    /\ pc = "print"
    /\ stdout' = Append(stdout, <<"test loss, test acc:", result[1], result[2]>>)
    /\ started' = Append(started, "print")
    /\ finished' = Append(finished, "print")
    /\ pc' = "done"
    /\ UNCHANGED <<args, hp, tfds_data, train, dev, test, info, hidden, loop_i, model,
                   stop_early, epoch, val_hist, failedAt, result, trained_on,
                   validated_on, tested_on, eval_params>>

FailPoints == {"prepare_data", "model", "model_loop", "compile", "fit_begin", "fit",
               "evaluate"}

\* variant: the exception caught and ignored
RaiseSwallowed ==
    /\ pc \in FailPoints
    /\ failedAt = None
    /\ failedAt' = StageOf(pc)
    /\ UNCHANGED <<pc, args, hp, tfds_data, train, dev, test, info, hidden, loop_i,
                   model, stop_early, epoch, val_hist, started, finished, stdout,
                   result, trained_on, validated_on, tested_on, eval_params>>

\* a framework call raises; main has no try/except, so the exception leaves main
\* and the interpreter exits
Raise ==
    /\ pc \in FailPoints
    /\ failedAt' = StageOf(pc)
    /\ started' = IF InSeq(StageOf(pc), started) THEN started
                  ELSE Append(started, StageOf(pc))
    /\ pc' = "failed"
    /\ UNCHANGED <<args, hp, tfds_data, train, dev, test, info, hidden, loop_i, model,
                   stop_early, epoch, val_hist, finished, stdout, result, trained_on,
                   validated_on, tested_on, eval_params>>

PrepareNext == PrepareData \/ Raise

BuildNext == PrepareData \/ BuildInput \/ BuildHidden \/ BuildOutput

Next ==
    \/ PrepareData \/ BuildInput \/ BuildHidden \/ BuildOutput
    \/ Compile \/ FitBegin \/ FitEpoch \/ FitEnd \/ Evaluate \/ PrintResult
    \/ Raise

----------------------------------------------------------------------------
(* Initial states *)

\* the values of main's locals before they are bound
NoDataset == Pipeline(<<>>, <<>>, 0, 0)
NoModel == [layers |-> <<>>, params |-> NoWeights, compiled |-> <<>>,
            stop_training |-> FALSE]

\* all sequences over S of length at most n
RECURSIVE SeqsUpTo(_, _)
SeqsUpTo(S, n) ==
    IF n = 0 THEN {<<>>}
    ELSE LET shorter == SeqsUpTo(S, n - 1)
         IN shorter \cup {Append(s, x) : s \in {t \in shorter : Len(t) = n - 1}, x \in S}

\* __main__ has run hp = HyperParams(...) and enters main(hp)
InitRest ==
    /\ pc = "prepare_data"
    /\ hp = HyperParams(args[1], args[2], args[3])
    /\ train = NoDataset /\ dev = NoDataset /\ test = NoDataset
    /\ info = [num_train |-> 0, shape |-> <<>>]
    /\ hidden = <<>> /\ loop_i = 0
    /\ model = NoModel
    /\ stop_early = EarlyStopping("", 0)
    /\ epoch = 0
    /\ val_hist = <<>>
    /\ started = <<>> /\ finished = <<>> /\ failedAt = None
    /\ stdout = <<>>
    /\ result = <<0, <<0, 0>>>>
    /\ trained_on = {} /\ validated_on = {} /\ tested_on = {}
    /\ eval_params = NoWeights

\* the whole run, over epoch counts and validation losses
Init ==
    /\ args \in {<<b, e, h>> : b \in {MaxBatch}, e \in 1..MaxEpochs,
                               h \in {<<>>, <<MaxWidth>>}}
    /\ tfds_data = Dataset(MaxTrain, MaxTest, 0)
    /\ InitRest

\* prepare_data, over stored datasets and batch sizes
InitPrepare ==
    /\ args \in {<<b, 1, <<>>>> : b \in 1..MaxBatch}
    /\ tfds_data \in {Dataset(n, m, s) : n \in 0..MaxTrain, m \in 0..MaxTest,
                                          s \in 0..255}
    /\ InitRest

\* model construction, over hidden_layers
InitBuild ==
    /\ args \in {<<MaxBatch, 1, h>> : h \in SeqsUpTo(1..MaxWidth, MaxHidden)}
    /\ tfds_data = Dataset(MaxTrain, MaxTest, 0)
    /\ InitRest

Spec == Init /\ [][Next]_vars
FairSpec == Init /\ [][Next]_vars /\ WF_vars(Next)
PrepareSpec == InitPrepare /\ [][PrepareNext]_vars
BuildSpec == InitBuild /\ [][BuildNext]_vars

----------------------------------------------------------------------------
(* Properties *)

IsPrefix(s, t) == Len(s) <= Len(t) /\ \A i \in 1..Len(s) : s[i] = t[i]

\* C1: the stages of main start and complete in the order prepare_data, model,
\* compile, fit, evaluate, print, each at most once; a stage starts only when
\* the one before it has completed; at most one line is printed, only after
\* evaluate has completed, and a run that reaches the end of main has printed
\* exactly one line.
C1_StageOrder ==
    /\ IsPrefix(started, Stages)
    /\ IsPrefix(finished, Stages)
    /\ Len(finished) <= Len(started)
    /\ Len(started) <= Len(finished) + 1
    /\ Len(stdout) <= 1
    /\ (Len(stdout) = 1 => InSeq("evaluate", finished))
    /\ (pc = "done" => Len(stdout) = 1 /\ finished = Stages)

C1_Witness == pc = "done" /\ finished = Stages /\ Len(stdout) = 1

\* epoch j (1-based) did not improve on the best val_loss of the epochs before it
NotImproved(h, j) == \E i \in 1..(j - 1) : h[i] <= h[j]
\* at epoch e, val_loss has failed to improve for 5 consecutive epochs
Stalled(h, e) == e >= 5 /\ \A j \in (e - 4)..e : NotImproved(h, j)

\* C2: fit's stop flag is set exactly when val_loss has failed to improve on its
\* best value for 5 consecutive epochs; no epoch is ever run after such an
\* epoch; and fit ends only there or when hp.epochs epochs have run.
C2_EarlyStopping ==
    /\ epoch = Len(val_hist)
    /\ \A e \in 1..(epoch - 1) : ~Stalled(val_hist, e)
    /\ (model.stop_training <=> Stalled(val_hist, epoch))
    /\ (InSeq("fit", finished) => epoch = hp.epochs \/ Stalled(val_hist, epoch))

C2_Witness ==
    /\ InSeq("fit", finished)
    /\ model.stop_training
    /\ epoch < hp.epochs
    /\ Stalled(val_hist, epoch)

\* C3: fit never runs more than hp.epochs epochs, has run at least one and at
\* most hp.epochs when it returns, and every run ends: it fails, or evaluate
\* completes and the result line is printed.
C3_Terminates ==
    /\ [](epoch <= hp.epochs)
    /\ [](InSeq("fit", finished) => 1 <= epoch /\ epoch <= hp.epochs)
    /\ <>(pc = "failed" \/ (InSeq("evaluate", finished) /\ Len(stdout) = 1))

C3_Witness ==
    /\ pc = "done"
    /\ ~model.stop_training
    /\ epoch = hp.epochs
    /\ epoch > 5

StoredIds(name) == {<<name, i>> : i \in 1..Len(tfds_data[name])}

\* C4: after prepare_data, train holds exactly the first k stored training
\* examples with k within half an example of 90% of them, dev holds exactly the
\* remaining ones, so the two are disjoint and together are the stored training
\* set; test holds exactly the stored test split and shares nothing with them.
C4_SplitPartition ==
    InSeq("prepare_data", finished) =>
        LET n == Len(tfds_data.train)
            k == Len(train.elems)
        IN /\ Ids(train) = {<<"train", i>> : i \in 1..k}
           /\ Ids(dev) = {<<"train", i>> : i \in (k + 1)..n}
           /\ Cardinality(Ids(train)) = k
           /\ Cardinality(Ids(dev)) = Len(dev.elems)
           /\ k + Len(dev.elems) = n
           /\ 10 * k - 9 * n \in (0 - 5)..5
           /\ Ids(train) \cap Ids(dev) = {}
           /\ Ids(train) \cup Ids(dev) = StoredIds("train")
           /\ Ids(test) = StoredIds("test")
           /\ Cardinality(Ids(test)) = Len(test.elems)
           /\ Ids(test) \cap (Ids(train) \cup Ids(dev)) = {}

C4_Witness ==
    /\ InSeq("prepare_data", finished)
    /\ Len(tfds_data.train) % 10 # 0
    /\ Len(train.elems) > 0
    /\ Len(dev.elems) > 0
    /\ Len(test.elems) > 0

\* the stored example an element of a pipeline came from
Stored(e) == tfds_data[e.id[1]][e.id[2]]
Elements(ds) == {ds.elems[i] : i \in 1..Len(ds.elems)}
AllElements == Elements(train) \cup Elements(dev) \cup Elements(test)

\* f agrees with p/255 in its leading 9 bits
NearQuotient(p, f) ==
    IF p = 0 THEN f.man = 0
    ELSE f.man \div Pow2(15) = (p * Pow2(8 - f.exp)) \div 255

\* C5: after prepare_data, every element of train, dev and test carries the
\* label of its stored example unchanged and, pixel for pixel, the float32
\* value of pixel/255: 255 gives 1.0, 0 gives 0.0, every value lies in [0, 1],
\* agrees with p/255, and a larger pixel never gives a smaller value.
C5_Normalized ==
    InSeq("prepare_data", finished) =>
        /\ \A e \in AllElements :
              /\ e.label = Stored(e).label
              /\ Len(e.image) = Len(Stored(e).image)
              /\ \A j \in 1..Len(e.image) :
                    LET p == Stored(e).image[j]
                        f == e.image[j]
                    IN /\ (p = 255 => f = F32One)
                       /\ (p = 0 => f = F32Zero)
                       /\ F32Leq(F32Zero, f)
                       /\ F32Leq(f, F32One)
                       /\ NearQuotient(p, f)
        /\ \A e1 \in AllElements, e2 \in AllElements :
              \A j1 \in 1..Len(e1.image), j2 \in 1..Len(e2.image) :
                 Stored(e1).image[j1] <= Stored(e2).image[j2]
                    => F32Leq(e1.image[j1], e2.image[j2])

C5_Witness ==
    /\ InSeq("prepare_data", finished)
    /\ \E e \in Elements(train) : Stored(e).image[1] = 255 /\ e.image[1] = F32One
    /\ \E e \in Elements(dev) \cup Elements(test) :
          Stored(e).image[1] = 0 /\ e.image[1] = F32Zero

\* C6: the constructed model is input, flatten, one dense+ReLU L2-regularized
\* layer per entry of hp.hidden_layers with that entry's width and in that
\* order, then the only dropout layer (rate 1/2), then a dense softmax layer of
\* 10 units.
C6_LayerChain ==
    InSeq("model", finished) =>
        LET layers == model.layers
            n == Len(hp.hidden_layers)
        IN /\ Len(layers) = n + 4
           /\ layers[1] = [kind |-> "Input", shape |-> info.shape]
           /\ layers[2] = [kind |-> "Flatten"]
           /\ \A i \in 1..n :
                 layers[2 + i] = [kind |-> "Dense", units |-> hp.hidden_layers[i],
                                  activation |-> "relu", kernel_regularizer |-> "l2"]
           /\ layers[n + 3] = [kind |-> "Dropout", rate |-> <<1, 2>>]
           /\ layers[n + 4] = [kind |-> "Dense", units |-> 10,
                               activation |-> "softmax", kernel_regularizer |-> None]
           /\ Cardinality({i \in 1..Len(layers) : layers[i].kind = "Dropout"}) = 1

C6_Witness ==
    /\ InSeq("model", finished)
    /\ Len(hp.hidden_layers) >= 2
    /\ hp.hidden_layers[1] # hp.hidden_layers[2]
    /\ Len(model.layers) = Len(hp.hidden_layers) + 4

\* C7: in every state of the run, hp's fields are the constructor's arguments:
\* batch_size the first, epochs the second, hidden_layers the third.
C7_HyperParamsFixed ==
    /\ hp.batch_size = args[1]
    /\ hp.epochs = args[2]
    /\ hp.hidden_layers = args[3]

C7_Witness ==
    /\ pc = "done"
    /\ epoch >= 1
    /\ args[1] # args[2]
    /\ args[3] # <<>>
    /\ hp.hidden_layers = args[3]

\* C8: once a stage has raised, the run is over: the process has left main,
\* the stages completed are exactly those before the one that raised, which was
\* started once, nothing has been printed, and no step changes anything.
C8_FailureEndsRun ==
    /\ [](failedAt # None =>
            /\ pc = "failed"
            /\ stdout = <<>>
            /\ started = Append(finished, failedAt)
            /\ IsPrefix(started, Stages))
    /\ [](pc = "failed" => failedAt # None)
    /\ [][failedAt # None => UNCHANGED vars]_vars

C8_Witness ==
    /\ pc = "failed"
    /\ failedAt = "fit"
    /\ epoch >= 1
    /\ stdout = <<>>

\* C9: once the model is constructed its layers never change, its parameters
\* change only in an epoch of fit, and evaluate uses the parameters left by the
\* last epoch that fit ran.
C9_ParamsFromLastEpoch ==
    /\ [][InSeq("model", finished) => model'.layers = model.layers]_vars
    /\ [][InSeq("model", finished) /\ model'.params # model.params
            => pc = "fit" /\ pc' = "fit" /\ epoch' = epoch + 1]_vars
    /\ [](InSeq("model", finished) => model.params = epoch)
    /\ [](InSeq("evaluate", finished) => eval_params = epoch /\ eval_params = model.params)

C9_Witness ==
    /\ pc = "done"
    /\ model.stop_training
    /\ eval_params = epoch
    /\ stop_early.best_epoch + 1 < epoch

IsTestId(id) == id[1] = "test"

\* C10: parameter updates read only examples of the train split, val_loss is
\* computed only on examples of the dev split and is what the callback monitors,
\* no stored test example is read by fit, and the test split is read only by
\* evaluate, after fit has returned.
C10_TestHeldOut ==
    /\ trained_on \subseteq Ids(train)
    /\ validated_on \subseteq Ids(dev)
    /\ \A id \in trained_on \cup validated_on : ~IsTestId(id)
    /\ (epoch >= 1 => stop_early.monitor = "val_loss")
    /\ (tested_on # {} => InSeq("fit", finished) /\ InSeq("evaluate", finished))
    /\ tested_on \subseteq Ids(test)
    /\ (InSeq("prepare_data", finished) =>
            Ids(test) = StoredIds("test")
            /\ Ids(train) \cup Ids(dev) \subseteq StoredIds("train"))

C10_Witness ==
    /\ pc = "done"
    /\ trained_on = Ids(train) /\ trained_on # {}
    /\ validated_on = Ids(dev) /\ validated_on # {}
    /\ tested_on = Ids(test) /\ tested_on # {}

====
